---- MODULE Spec2Model ----
(***************************************************************************)
(* Publish-or-update reconciliation engine of the Group Analytics          *)
(* notebook (src/Group_Analytics_Notebook.py, CELL 3 helper functions and   *)
(* CELL 9).  The same functions appear verbatim in                          *)
(* src/Group_Snapshot_Only_Notebook.py.                                     *)
(*                                                                          *)
(* The sink (the ArcGIS portal) is the environment.  Each of its            *)
(* primitives is modelled with the outcomes the source tells apart for      *)
(* that primitive: it raises (and then has no effect), or it returns one    *)
(* of the values the source inspects (an item, None, a true or a false      *)
(* result).  Search and listing results are arbitrary subsets of the        *)
(* sink's items, because the search index is not guaranteed to be           *)
(* consistent.  A row is identified by <<version, index>>; cell values and  *)
(* their conversions are not part of this row-level view.                   *)
(***************************************************************************)
EXTENDS Integers, Sequences, FiniteSets, TLC

VARIABLES
    items,          \* the sink's content: item id -> item
    nextId,         \* the next item id the sink assigns
    pc,             \* position of the single notebook thread
    table_name,     \* publish_or_update_table argument
    dataframe,      \* publish_or_update_table argument
    existing_item,  \* publish_or_update_table local (item id or NULL)
    csv_item,       \* update_existing_table local (item id or NULL)
                    \* (the locals of update_existing_table and of
                    \* add_features_in_batches are cleared when
                    \* update_existing_table returns False)
    new_item,       \* publish_or_update_table local (item id or NULL)
    update_result,  \* publish_or_update_table local `success`
    append_result,  \* update_existing_table local, with "raise" for the except branch
    user_input,     \* publish_or_update_table local, after strip().lower()
    batch_i,        \* add_features_in_batches loop variable i
    total_added,    \* add_features_in_batches local
    ret,            \* value returned by the last publish_or_update_table call
    path,           \* the return statement the last call left through
    touched,        \* the current / last call invoked a primitive of the sink
    preItems,       \* the sink's content when the current / last call started
    calls,          \* number of completed calls
    onlyUpdates,    \* every call so far returned through the update path
    firstRet,       \* value the first call returned (NULL once onlyUpdates
                    \* is false)
    sameData,       \* every call so far took the update path and the
                    \* current / last call repeats the dataset of the call
                    \* before it
    tried,          \* number of search methods find_existing_table used
                    \* (0 once the step after its return has been taken)
    escaped,        \* an exception left publish_or_update_table uncaught
    temp_csv_left,  \* the function that returned in the last step left its
                    \* temporary CSV file on disk
    value,          \* truncate_string argument / the raw value of a cell
    max_length,     \* truncate_string argument / the length of the field
    add_ellipsis,   \* truncate_string argument
    column,         \* the column the cell belongs to
    write_path,     \* the write path the cell takes to the sink
    stored,         \* truncate_string result / the value written to the sink
    layer_fields,   \* add_features_in_batches: names of layer.properties.fields
    df_columns,     \* add_features_in_batches: names of dataframe.columns
    attributes,     \* add_features_in_batches: the attribute map of a row,
                    \* as pairs <<key, dataframe column of the value>>
    features_result, \* "ok" once all_features is built, "nomatch" for the
                    \* return False on an empty all_features
    members,        \* CELL 6, 8: the users and admins of the group, each
                    \* with its entry of user_info_dict
    org_id,         \* CELL 3: gis.properties.get('id', '')
    snapshot_record, \* CELL 6: the group's record of group_snapshot_data
    group_members_data, \* CELL 8: user_membership_type of the group's records
    cell            \* the cell of the notebook that ran last

vars == <<items, nextId, pc, table_name, dataframe, existing_item, csv_item,
          new_item, update_result, append_result, user_input, batch_i,
          total_added, ret, path, touched, preItems, calls, onlyUpdates,
          firstRet, sameData, tried, escaped, temp_csv_left, value,
          max_length, add_ellipsis, column, write_path, stored,
          layer_fields, df_columns, attributes, features_result, members,
          org_id, snapshot_record, group_members_data, cell>>

\* the variables of the string handling
fieldVars == <<value, max_length, add_ellipsis, column, write_path, stored>>

\* the variables of the building of the attribute maps
featureVars == <<layer_fields, df_columns, attributes, features_result>>

\* the variables of the building of the records of a group
memberVars == <<members, org_id, snapshot_record, group_members_data, cell>>

\* the variables of the data cells, which publish_or_update_table leaves alone
dataVars == <<fieldVars, featureVars, memberVars>>

----------------------------------------------------------------------------
(* Bounds *)

MaxCalls == 2
MaxRows == 3
MaxVersion == 2
BatchSize == 2
\* the sink refuses to add an item once MaxId ids are in use
MaxId == 6
\* most members of a group
MaxMembers == 3
\* longest raw string, and largest max_length, tried
MaxLen == 6
\* the field length of the string columns, FIELD_LENGTH_DEFAULT = 256 in
\* the program, scaled down
FieldLength == 4

----------------------------------------------------------------------------
(* Constants of the program *)

NULL == 0

current_user == "me"
OtherUser == "other"

GROUP_SNAPSHOT_TABLE == "Group_Snapshot"
GROUP_CONTENT_TABLE == "Group_Content"
GROUP_MEMBERS_TABLE == "Group_Members"

\* the table the repeated runs of the engine are followed for
TableNames == {GROUP_SNAPSHOT_TABLE}

\* the order in which CELL 9 publishes the three tables
TableOrder == <<GROUP_SNAPSHOT_TABLE, GROUP_CONTENT_TABLE, GROUP_MEMBERS_TABLE>>

FeatureService == "Feature Service"
CSV == "CSV"

\* csv_title = f"{table_name}_source"
CsvTitle(name) == name \o "_source"

\* service_name = table_name.replace(' ', '_').replace('-', '_'); the
\* configured table names contain neither character.
ServiceName(name) == name

\* the dataset of version v with n rows
DataSet(v, n) == [i \in 1..n |-> <<v, i>>]

OldRows == DataSet(0, 2)

Min(a, b) == IF a < b THEN a ELSE b

Item(title, owner, type, rows, access) ==
    [title |-> title, owner |-> owner, type |-> type, rows |-> rows,
     access |-> access]

----------------------------------------------------------------------------
(* The sink's primitives *)

Ids(its) == DOMAIN its

IdsOfType(its, type) == {i \in Ids(its) : its[i].type = type}

\* gis.content.add / Folder.add / Item.publish: a new item under a fresh id
AddItem(its, id, it) == [i \in Ids(its) \cup {id} |-> IF i = id THEN it ELSE its[i]]

\* Item.delete(permanent=True)
RemoveItemNoop(its, id) == its

RemoveItemAndSource(its, id) ==
    [i \in Ids(its) \ ({id} \cup IdsOfType(its, CSV)) |-> its[i]]

RemoveItem(its, id) == [i \in Ids(its) \ {id} |-> its[i]]

\* target_layer.delete_features(where="1=1")
DeleteAllRowsNoop(its, id) == its

DeleteAllRowsKeepsFirst(its, id) ==
    [its EXCEPT ![id].rows = SubSeq(@, 1, Min(1, Len(@)))]

DeleteAllRows(its, id) == [its EXCEPT ![id].rows = <<>>]

\* target_layer.append(item_id=csv_item.id, ...): the rows of the CSV item
\* are added to the table
AppendFromCsv(its, id, csv) == [its EXCEPT ![id].rows = its[id].rows \o its[csv].rows]

ReplaceContentAppends(its, id, rows) == [its EXCEPT ![id].rows = @ \o rows]

\* csv_item.update(data=temp_csv_path)
ReplaceContent(its, id, rows) == [its EXCEPT ![id].rows = rows]

----------------------------------------------------------------------------
(* find_existing_table, find_source_csv_item *)

MatchesNoOwner(its, results, title) == {i \in results : its[i].title = title}

\* if item.title == table_name and item.owner == current_user
Matches(its, results, title) ==
    {i \in results : its[i].title = title /\ its[i].owner = current_user}

ListMatchesAnyTitle(its, listing, title) ==
    {i \in listing : its[i].type = FeatureService}

\* Method 3: if item.title == table_name and item.type == "Feature Service"
ListMatches(its, listing, title) ==
    {i \in listing : its[i].title = title /\ its[i].type = FeatureService}

\* The possible results of find_existing_table: err is the call that raises
\* ("none" when no call raises), r1 and r2 are the two search results and
\* listing is gis.users.me.items(); tried is the number of methods used and
\* raised the call that did raise.
FindExistingTable(its, name, err, r1, r2, listing) ==
    IF err = "search1" THEN {[item |-> NULL, tried |-> 1, raised |-> err]}
    ELSE IF Matches(its, r1, name) # {}
    THEN {[item |-> i, tried |-> 1, raised |-> "none"] :
             i \in Matches(its, r1, name)}
    ELSE IF err = "search2" THEN {[item |-> NULL, tried |-> 2, raised |-> err]}
    ELSE IF Matches(its, r2, name) # {}
    THEN {[item |-> i, tried |-> 2, raised |-> "none"] :
             i \in Matches(its, r2, name)}
    ELSE IF err = "list" THEN {[item |-> NULL, tried |-> 3, raised |-> err]}
    ELSE IF ListMatches(its, listing, name) # {}
    THEN {[item |-> i, tried |-> 3, raised |-> "none"] :
             i \in ListMatches(its, listing, name)}
    ELSE {[item |-> NULL, tried |-> 3, raised |-> "none"]}

\* The possible results of find_source_csv_item; raised names the search
\* that raised ("none" when none did)
FindSourceCsvItem(its, name, err, r1, r2) ==
    IF err = "csv_search1" THEN {[item |-> NULL, raised |-> err]}
    ELSE IF Matches(its, r1, CsvTitle(name)) # {}
    THEN {[item |-> i, raised |-> "none"] : i \in Matches(its, r1, CsvTitle(name))}
    ELSE IF err = "csv_search2" THEN {[item |-> NULL, raised |-> err]}
    ELSE IF Matches(its, r2, CsvTitle(name)) # {}
    THEN {[item |-> i, raised |-> "none"] : i \in Matches(its, r2, CsvTitle(name))}
    ELSE {[item |-> NULL, raised |-> "none"]}

----------------------------------------------------------------------------
(* The operator prompt *)

NoInput == "<none>"

Inputs == {"yes", "y", "no", "n", "skip", "s", " Yes ", "NO", "maybe"}

\* input(...).strip().lower() on the inputs above
StripLower(inp) ==
    CASE inp = " Yes " -> "yes"
      [] inp = "NO" -> "no"
      [] OTHER -> inp

IsProceedLax(answer) == answer \notin {"no", "n", "skip", "s"}

\* if user_input in ['yes', 'y']
IsProceed(answer) == answer \in {"yes", "y"}

IsAbortLax(answer) == answer \notin {"yes", "y", "skip", "s"}

\* elif user_input in ['no', 'n']
IsAbort(answer) == answer \in {"no", "n"}

\* elif user_input in ['skip', 's']
IsSkip(answer) == answer \in {"skip", "s"}

----------------------------------------------------------------------------
(* truncate_string and the string cells of a record *)

\* strings are sequences over this alphabet
Chars == {"a", "."}

Strings == UNION {[1..n -> Chars] : n \in 0..MaxLen}

\* None
NoValue == <<"None">>

\* "..."
Ellipsis == <<".", ".", ".">>

\* s[:k]
Slice(s, k) ==
    IF k >= 0 THEN SubSeq(s, 1, Min(k, Len(s)))
    ELSE SubSeq(s, 1, IF Len(s) + k > 0 THEN Len(s) + k ELSE 0)

TruncateThenMark(v, n, e) ==
    IF v = NoValue THEN <<>>
    ELSE IF Len(v) <= n THEN v
    ELSE Slice(v, n) \o Ellipsis

TruncateHardCut(v, n, e) ==
    IF v = NoValue THEN <<>>
    ELSE Slice(v, n)

\* str_value = str(value): the values passed are strings, which str
\* returns as they are
truncate_string(v, n, e) ==
    IF v = NoValue THEN <<>>
    ELSE LET str_value == v IN
         IF Len(str_value) <= n THEN str_value
         ELSE IF e /\ n > 3 THEN Slice(str_value, n - 3) \o Ellipsis
         ELSE Slice(str_value, n)

\* a column whose value truncate_string cuts when the record is built
\* (group_title, group_summary, group_description, group_tags, item_title,
\* user_categories), and a string column stored as it was read
\* (group_owner_name, item_owner, user_name, user_email, ...)
Columns == {"group_title", "group_owner_name"}

TruncatedColumns == {"group_title"}

\* the value of the cell in the record built for the dataset
SourceCell(col, raw) ==
    IF col \in TruncatedColumns
    THEN truncate_string(raw, FieldLength, TRUE)
    ELSE raw

\* add_features_in_batches: if len(value) > max_len: value = value[:max_len]
BatchValue(v, max_len) == IF Len(v) > max_len THEN Slice(v, max_len) ELSE v

\* the write paths: the CSV published by create_new_table, the staging CSV
\* appended by update_existing_table, the batch insert
WritePaths == {"csv_publish", "csv_append", "batch"}

\* the value written to the sink: to_csv writes the cell as it is, the
\* batch insert cuts it to the length of the layer's field
Written(col, raw, p, max_len) ==
    IF p = "batch" THEN BatchValue(SourceCell(col, raw), max_len)
    ELSE SourceCell(col, raw)

----------------------------------------------------------------------------
(* add_features_in_batches: the attribute map of a row *)

\* names of fields of the live table
FieldNames == {"OBJECTID", "GlobalID", "FID", "group_id", "Group_Title"}

\* names of columns of the dataset
ColumnNames == {"group_id", "group_title", "objectid", "item_count"}

\* str.lower() on these names
Lower(name) ==
    CASE name = "OBJECTID" -> "objectid"
      [] name = "GlobalID" -> "globalid"
      [] name = "FID" -> "fid"
      [] name = "Group_Title" -> "group_title"
      [] OTHER -> name

\* if field_name not in ['objectid', 'fid', 'globalid']
SystemFields == {"objectid", "fid", "globalid"}

LayerFieldInfoAll(fields) == fields

\* layer_field_info: the fields of the layer but the system-managed ones
LayerFieldInfo(fields) == {f \in fields : Lower(f) \notin SystemFields}

\* the attributes of a row: for each field of layer_field_info whose
\* lowered name is a lowered column name, the value of that column under
\* field_info['name']
Attributes(fields, columns) ==
    {<<f, c>> : f \in LayerFieldInfo(fields), c \in columns} \cap
    {fc \in FieldNames \X ColumnNames : Lower(fc[1]) = Lower(fc[2])}

----------------------------------------------------------------------------
(* CELL 6 and CELL 8: external members *)

\* a member of a group: known when user_info_dict has an entry for the
\* username, org its 'org_id' ('' when safe_get found none)
MemberKinds ==
    {m \in [known : BOOLEAN, org : {"", "org_A", "org_B"}] :
        ~m.known => m.org = ""}

\* values of gis.properties.get('id', '')
OrgIds == {"", "org_A"}

MemberLists == UNION {[1..n -> MemberKinds] : n \in 0..MaxMembers}

\* CELL 6: a username with an entry counts as external when its org_id and
\* the organization's are both set and differ, one without an entry always
ExternalInSnapshot(m, org) ==
    IF m.known
    THEN m.org # "" /\ org # "" /\ m.org # org
    ELSE TRUE

\* CELL 8: user_membership_type
MembershipType(m, org) ==
    LET user_org == IF m.known THEN m.org ELSE "" IN
    IF user_org # "" /\ org # "" /\ user_org = org
    THEN "Internal"
    ELSE "External"

----------------------------------------------------------------------------
(* Exceptions *)

\* The calls of the sink that can raise, each lying inside a try block with
\* an `except Exception` (or bare except) handler of the function that
\* makes it
GuardedCalls ==
    {"search1", "search2", "list",          \* find_existing_table
     "csv_search1", "csv_search2",          \* find_source_csv_item
     "csv_update",                          \* update_source_csv_item
     "csv_add",                             \* create_source_csv_item
     "delete_features", "append",           \* update_existing_table
     "fields", "edit_features",             \* add_features_in_batches
     "content_add", "analyze", "publish",   \* create_new_table
     "rename",
     "item_delete", "sharing_level",        \* publish_or_update_table
     "share"}

CaughtExceptSearch(call) == call \notin {"search1", "search2", "list"}

CaughtExceptPublish(call) == call # "publish"

CaughtExceptAppend(call) == call # "append"

\* the exception the call raises is handled inside the function
Caught(call) == call \in GuardedCalls

\* the call raised and no handler took the exception
Escapes(call) == call # "none" /\ ~Caught(call)

----------------------------------------------------------------------------
(* Initial state *)

InitItems(hasTable, hasCsv) ==
    [i \in (IF hasTable THEN {1} ELSE {}) \cup (IF hasCsv THEN {2} ELSE {})
           \cup {3, 4} |->
        CASE i = 1 -> Item(GROUP_SNAPSHOT_TABLE, current_user, FeatureService,
                           OldRows, "org")
          [] i = 2 -> Item(CsvTitle(GROUP_SNAPSHOT_TABLE), current_user, CSV,
                           OldRows, "private")
          [] i = 3 -> Item(GROUP_SNAPSHOT_TABLE, OtherUser, FeatureService,
                           OldRows, "org")
          [] OTHER -> Item("Group_Snapshot_Archive", current_user, FeatureService,
                           OldRows, "private")]

\* no call of publish_or_update_table has been made
EngineIdle ==
    /\ nextId = 5
    /\ pc = "idle"
    /\ table_name = GROUP_SNAPSHOT_TABLE
    /\ dataframe = <<>>
    /\ existing_item = NULL
    /\ csv_item = NULL
    /\ new_item = NULL
    /\ update_result = "none"
    /\ append_result = "unset"
    /\ user_input = NoInput
    /\ batch_i = 0
    /\ total_added = 0
    /\ ret = NULL
    /\ path = "none"
    /\ touched = FALSE
    /\ preItems = items
    /\ calls = 0
    /\ onlyUpdates = TRUE
    /\ firstRet = NULL
    /\ sameData = FALSE
    /\ tried = 0
    /\ escaped = FALSE
    /\ temp_csv_left = FALSE

\* no string is being handled
FieldIdle ==
    /\ value = <<>>
    /\ max_length = 0
    /\ add_ellipsis = TRUE
    /\ column = "none"
    /\ write_path = "none"
    /\ stored = <<>>

\* no attribute map is being built
FeatureIdle ==
    /\ layer_fields = {}
    /\ df_columns = {}
    /\ attributes = {}
    /\ features_result = "none"

\* the record of a group before CELL 6 has filled it
NoRecord == [external_member_count |-> 0, has_external_members |-> FALSE]

\* CELL 9 has been reached: the records of the groups are not followed
MemberIdle ==
    /\ members = <<>>
    /\ org_id = ""
    /\ snapshot_record = NoRecord
    /\ group_members_data = <<>>
    /\ cell = 9

Init ==
    /\ \E hasTable \in BOOLEAN, hasCsv \in BOOLEAN :
          /\ hasCsv => hasTable
          /\ items = InitItems(hasTable, hasCsv)
    /\ EngineIdle
    /\ FieldIdle
    /\ FeatureIdle
    /\ MemberIdle

----------------------------------------------------------------------------
(* Inputs drawn for the sink's answers *)

\* a search or listing over the candidates X returns nothing, one item, or all
Results(X) == {S \in SUBSET X : Cardinality(S) <= 1 \/ S = X}

MyItems(its) == {i \in Ids(its) : its[i].owner = current_user}

----------------------------------------------------------------------------
(* publish_or_update_table: entry *)

IsEmptyNever(df) == FALSE

\* if len(dataframe) == 0
IsEmpty(df) == Len(df) = 0

\* a return statement of publish_or_update_table
Return(r, p) ==
    /\ ret' = r
    /\ path' = p
    /\ pc' = "idle"
    /\ calls' = calls + 1
    /\ onlyUpdates' = (onlyUpdates /\ p = "updated")
    /\ firstRet' = IF onlyUpdates' THEN (IF calls = 0 THEN r ELSE firstRet) ELSE NULL
    /\ sameData' = (sameData /\ p = "updated")
    /\ tried' = 0
    /\ UNCHANGED dataVars

\* a step of the call that is not a return
Running ==
    /\ UNCHANGED <<ret, path, calls, onlyUpdates, firstRet, sameData>>
    /\ tried' = 0
    /\ UNCHANGED dataVars

RunStopsOnNone(r, p) == r # NULL

RunStopsOnEmpty(r, p) == p # "empty"

\* CELL 9 makes its calls of publish_or_update_table one after the other
\* and does not look at what a call returned before making the next one
RunContinues(r, p) == TRUE

PublishOrUpdateTable(name, v, n) ==
    /\ pc = "idle"
    /\ ~escaped
    /\ calls = 0 \/ RunContinues(ret, path)
    /\ table_name' = name
    /\ dataframe' = DataSet(v, n)
    /\ existing_item' = NULL
    /\ csv_item' = NULL
    /\ new_item' = NULL
    /\ update_result' = "none"
    /\ append_result' = "unset"
    /\ user_input' = NoInput
    /\ batch_i' = 0
    /\ total_added' = 0
    /\ touched' = FALSE
    /\ preItems' = items
    /\ UNCHANGED <<items, nextId, escaped>>
    /\ temp_csv_left' = FALSE
    /\ IF IsEmpty(dataframe')
       THEN Return(NULL, "empty")
       ELSE /\ pc' = "locating"
            /\ ret' = NULL
            /\ path' = "running"
            /\ sameData' = (onlyUpdates /\ calls > 0 /\ dataframe' = dataframe)
            /\ tried' = 0
            /\ UNCHANGED <<calls, onlyUpdates, firstRet>>
            /\ UNCHANGED dataVars

\* what find_existing_table can return, over every answer of the sink
LocateOutcomes(its, name) ==
    UNION {FindExistingTable(its, name, err, r1, r2, listing) :
              err \in {"none", "search1", "search2", "list"},
              r1 \in Results(IdsOfType(its, FeatureService)),
              r2 \in Results(IdsOfType(its, FeatureService)),
              listing \in Results(MyItems(its))}

\* existing_item = find_existing_table(gis, table_name)
Locate ==
    /\ pc = "locating"
    /\ ~escaped
    /\ \E found \in LocateOutcomes(items, table_name) :
          /\ existing_item' = found.item
          /\ tried' = found.tried
          /\ escaped' = Escapes(found.raised)
          /\ touched' = TRUE
          /\ pc' = IF found.item # NULL THEN "updating" ELSE "creating"
    /\ UNCHANGED <<ret, path, calls, onlyUpdates, firstRet, sameData>>
    /\ UNCHANGED dataVars
    /\ temp_csv_left' = FALSE
    /\ UNCHANGED <<items, nextId, table_name, dataframe, csv_item, new_item,
                   update_result, append_result, user_input, batch_i,
                   total_added, preItems>>

----------------------------------------------------------------------------
(* update_existing_table *)

\* update_existing_table returned False: if success is false the operator
\* is prompted
UpdateFailed ==
    /\ update_result' = "failed"
    /\ csv_item' = NULL
    /\ append_result' = "unset"
    /\ batch_i' = 0
    /\ total_added' = 0
    /\ pc' = "awaiting"
    /\ Running

UpdateSucceededPrompts ==
    /\ update_result' = "ok"
    /\ pc' = "awaiting"
    /\ Running

\* update_existing_table returned True: return existing_item
UpdateSucceeded ==
    /\ update_result' = "ok"
    /\ Return(existing_item, "updated")

\* update_existing_table goes on to its next step
UpdateContinues(next) ==
    /\ pc' = next
    /\ Running
    /\ UNCHANGED update_result

DeleteAlwaysSucceeded(out) == TRUE

\* Step 1 goes on to Step 2 unless no layer or table was found (return
\* False) or delete_features raised (except: return False)
DeleteSucceeded(out) == out = "ok"

\* FeatureLayerCollection.fromitem, the choice of the target layer and
\* Step 1, delete_features(where="1=1")
UpdateDeleteFeatures ==
    /\ pc = "updating"
    /\ ~escaped
    /\ touched' = TRUE
    /\ temp_csv_left' = FALSE
    /\ \E out \in {"ok", "raise", "unusable"} :
          /\ items' = IF out = "ok" THEN DeleteAllRows(items, existing_item)
                      ELSE items
          /\ escaped' = (out = "raise" /\ ~Caught("delete_features"))
          /\ IF DeleteSucceeded(out)
             THEN /\ UpdateContinues("staging")
                  /\ UNCHANGED <<csv_item, append_result, batch_i, total_added>>
             ELSE UpdateFailed
    /\ UNCHANGED <<nextId, table_name, dataframe, existing_item, new_item,
                   user_input, preItems>>

\* the item create_source_csv_item and create_new_table register
SourceCsvItemEmpty(name, df) ==
    Item(CsvTitle(name), current_user, CSV, <<>>, "private")

SourceCsvItem(name, df) ==
    Item(CsvTitle(name), current_user, CSV, df, "private")

\* the sink has an id left for a new item
CanAdd(id) == id <= MaxId

\* update_source_csv_item, create_source_csv_item and create_new_table
\* remove the temporary file after the call of the sink has returned; a
\* call that raises jumps to the handler (or returns) past the removal
LeavesTempFile(out) == out \in {"raise", "add_raise", "analyze_raise",
                                "publish_raise", "rename_raise"}

\* what find_source_csv_item can return, over every answer of the sink
StagingOutcomes(its, name) ==
    UNION {FindSourceCsvItem(its, name, err, r1, r2) :
              err \in {"none", "csv_search1", "csv_search2"},
              r1 \in Results(IdsOfType(its, CSV)),
              r2 \in Results(IdsOfType(its, CSV))}

\* Step 2: find_source_csv_item, then update_source_csv_item or
\* create_source_csv_item
UpdateStaging ==
    /\ pc = "staging"
    /\ ~escaped
    /\ touched' = TRUE
    /\ \E found \in StagingOutcomes(items, items[existing_item].title) :
             IF found.item # NULL
             THEN \E out \in {"ok", "false", "raise"} :
                     /\ UNCHANGED nextId
                     /\ escaped' = (Escapes(found.raised)
                                      \/ (out = "raise" /\ ~Caught("csv_update")))
                     /\ temp_csv_left' = LeavesTempFile(out)
                     /\ IF out = "ok"
                        THEN /\ items' = ReplaceContent(items, found.item, dataframe)
                             /\ csv_item' = found.item
                             /\ UpdateContinues("appending")
                             /\ UNCHANGED <<append_result, batch_i, total_added>>
                        ELSE /\ UpdateFailed
                             /\ UNCHANGED items
             ELSE \E out \in (IF CanAdd(nextId) THEN {"ok", "none", "raise"}
                               ELSE {"none", "raise"}) :
                     /\ escaped' = (Escapes(found.raised)
                                      \/ (out = "raise" /\ ~Caught("csv_add")))
                     /\ temp_csv_left' = LeavesTempFile(out)
                     /\ IF out = "ok"
                        THEN /\ items' = AddItem(items, nextId,
                                            SourceCsvItem(items[existing_item].title, dataframe))
                             /\ nextId' = nextId + 1
                             /\ csv_item' = nextId
                             /\ UpdateContinues("appending")
                             /\ UNCHANGED <<append_result, batch_i, total_added>>
                        ELSE /\ UpdateFailed
                             /\ UNCHANGED <<items, nextId>>
    /\ UNCHANGED <<table_name, dataframe, existing_item, new_item,
                   user_input, preItems>>

\* if append_result is not None: return True
AppendAccepted(result) == result \notin {"none", "raise"}

\* Step 3: target_layer.append(item_id=csv_item.id, ...)
UpdateAppend ==
    /\ pc = "appending"
    /\ ~escaped
    /\ touched' = TRUE
    /\ temp_csv_left' = FALSE
    /\ \E out \in {"ok", "false", "none", "raise"} :
          /\ append_result' = out
          /\ escaped' = (out = "raise" /\ ~Caught("append"))
          /\ items' = IF out = "ok"
                      THEN AppendFromCsv(items, existing_item, csv_item)
                      ELSE items
          /\ IF AppendAccepted(out)
             THEN UpdateSucceeded
             ELSE UpdateContinues("batch_start")
    /\ UNCHANGED <<nextId, table_name, dataframe, existing_item, csv_item,
                   new_item, user_input, batch_i, total_added, preItems>>

----------------------------------------------------------------------------
(* add_features_in_batches *)

RECURSIVE Pick(_, _, _)
\* the rows of batch, from position k on, whose add result reports success
Pick(batch, mask, k) ==
    IF k > Len(batch) THEN <<>>
    ELSE (IF mask[k] THEN <<batch[k]>> ELSE <<>>) \o Pick(batch, mask, k + 1)

BatchOverlapping(all_features, i, batch_size) ==
    SubSeq(all_features, i + 1, Min(i + batch_size + 1, Len(all_features)))

BatchShort(all_features, i, batch_size) ==
    SubSeq(all_features, i + 1, Min(i + batch_size - 1, Len(all_features)))

\* batch = all_features[i:i + batch_size]
Batch(all_features, i, batch_size) ==
    SubSeq(all_features, i + 1, Min(i + batch_size, Len(all_features)))

RetriesNever(batch, batch_size) == FALSE

\* if batch_size > 1 and len(batch) > 1: retry one record at a time
RetriesSingly(batch, batch_size) == batch_size > 1 /\ Len(batch) > 1

InsertedTwice(batch, batch_size, kind, mask) ==
    CASE kind = "result" -> Pick(batch, mask, 1)
      [] kind = "throw" /\ RetriesSingly(batch, batch_size) ->
            Pick(batch, mask, 1) \o Pick(batch, mask, 1)
      [] OTHER -> <<>>

\* The rows one pass of the loop stores.  kind "result": edit_features
\* returned addResults, mask[k] being the success flag of row k; "noresult":
\* it returned nothing usable; "throw": it raised, and mask[k] tells whether
\* the single insert of row k then succeeded.
Inserted(batch, batch_size, kind, mask) ==
    CASE kind = "result" -> Pick(batch, mask, 1)
      [] kind = "throw" /\ RetriesSingly(batch, batch_size) -> Pick(batch, mask, 1)
      [] OTHER -> <<>>

\* what one pass of the loop can store, over every answer of the sink, and
\* whether edit_features raised in it
InsertOutcomes(batch, batch_size) ==
    {[rows |-> Inserted(batch, batch_size, kind, mask),
      raised |-> IF kind = "throw" THEN "edit_features" ELSE "none"] :
        kind \in {"result", "noresult", "throw"},
        mask \in [1..Len(batch) -> BOOLEAN]}

AllOrNothing(added, n) == added = n

\* if total_added == len(all_features): True; elif total_added > 0: True
BatchResult(added, n) == added = n \/ added > 0

\* Step 4: the call of add_features_in_batches, up to its loop: reading the
\* layer's fields and building all_features
BatchStart ==
    /\ pc = "batch_start"
    /\ ~escaped
    /\ touched' = TRUE
    /\ temp_csv_left' = FALSE
    /\ \E out \in {"ok", "nomatch", "raise"} :
          /\ escaped' = (out = "raise" /\ ~Caught("fields"))
          /\ IF out = "ok" /\ Len(dataframe) > 0
             THEN /\ batch_i' = 0
                  /\ total_added' = 0
                  /\ UpdateContinues("batch")
                  /\ UNCHANGED <<csv_item, append_result>>
             ELSE UpdateFailed
    /\ UNCHANGED <<items, nextId, table_name, dataframe, existing_item,
                   new_item, user_input, preItems>>

\* one pass of `for i in range(0, len(all_features), batch_size)`, and after
\* the last pass the result of add_features_in_batches
BatchStep ==
    /\ pc = "batch"
    /\ ~escaped
    /\ touched' = TRUE
    /\ temp_csv_left' = FALSE
    /\ LET batch == Batch(dataframe, batch_i, BatchSize) IN
       \E outcome \in InsertOutcomes(batch, BatchSize) :
          LET inserted == outcome.rows IN
          /\ escaped' = Escapes(outcome.raised)
          /\ items' = [items EXCEPT ![existing_item].rows = @ \o inserted]
          /\ IF batch_i + BatchSize < Len(dataframe)
             THEN /\ total_added' = total_added + Len(inserted)
                  /\ batch_i' = batch_i + BatchSize
                  /\ UpdateContinues("batch")
                  /\ UNCHANGED <<csv_item, append_result>>
             ELSE IF BatchResult(total_added + Len(inserted), Len(dataframe))
                  THEN /\ total_added' = total_added + Len(inserted)
                       /\ batch_i' = batch_i + BatchSize
                       /\ UpdateSucceeded
                       /\ UNCHANGED <<csv_item, append_result>>
                  ELSE UpdateFailed
    /\ UNCHANGED <<nextId, table_name, dataframe, existing_item, new_item,
                   user_input, preItems>>

----------------------------------------------------------------------------
(* publish_or_update_table: the operator prompt *)

\* one pass of `while True: user_input = input(...).strip().lower()`
OperatorInput ==
    /\ pc = "awaiting"
    /\ ~escaped
    /\ temp_csv_left' = FALSE
    /\ \E inp \in Inputs :
          /\ user_input' = StripLower(inp)
          /\ CASE IsProceed(user_input') ->
                    \E out \in {"ok", "raise"} :
                       /\ touched' = TRUE
                       /\ escaped' = (out = "raise" /\ ~Caught("item_delete"))
                       /\ IF out = "ok"
                          THEN /\ items' = RemoveItem(items, existing_item)
                               /\ pc' = "creating"
                               /\ Running
                          ELSE /\ Return(NULL, "delete_failed")
                               /\ UNCHANGED items
               [] IsAbort(user_input') ->
                    /\ Return(existing_item, "aborted")
                    /\ UNCHANGED <<items, touched, escaped>>
               [] IsSkip(user_input') ->
                    /\ Return(existing_item, "skipped")
                    /\ UNCHANGED <<items, touched, escaped>>
               [] OTHER ->
                    /\ pc' = "awaiting"
                    /\ Running
                    /\ UNCHANGED <<items, touched, escaped>>
    /\ UNCHANGED <<nextId, table_name, dataframe, existing_item, csv_item,
                   new_item, update_result, append_result, batch_i,
                   total_added, preItems>>

----------------------------------------------------------------------------
(* create_new_table *)

\* the call of create_new_table that raises under the outcome out
RaisingCall(out) ==
    CASE out = "add_raise" -> "content_add"
      [] out = "analyze_raise" -> "analyze"
      [] out = "publish_raise" -> "publish"
      [] out = "rename_raise" -> "rename"
      [] OTHER -> "none"

CreateOutcomes ==
    {"add_raise", "analyze_raise", "publish_raise", "rename_raise",
     "rename_false", "ok"}

\* the outcomes the sink can produce when the next free id is id
PossibleOutcomes(id) ==
    {o \in CreateOutcomes :
        \/ o = "add_raise"
        \/ CanAdd(id) /\ o \in {"analyze_raise", "publish_raise"}
        \/ CanAdd(id + 1)}

\* published_item = csv_item.publish(publish_parameters=pub_params): a
\* hosted table named after the service, holding the rows of the CSV
PublishedItem(name, df) ==
    Item(ServiceName(name), current_user, FeatureService, df, "private")

\* create_new_table: the sink's content and the item returned (NULL for
\* None).  out names the call that raises or reports failure.  The folder
\* an item lies in is not part of an item here, so the three move attempts
\* leave the content as it is.
CreateNewTable(its, id, name, df, out) ==
    LET withCsv == AddItem(its, id, SourceCsvItem(name, df))
        published == AddItem(withCsv, id + 1, PublishedItem(name, df))
        renamed == [published EXCEPT ![id + 1].title = name]
        titled == IF out = "ok" THEN renamed ELSE published
    IN  CASE out = "add_raise" ->
               [items |-> its, item |-> NULL, minted |-> 0]
          [] out = "analyze_raise" ->
               [items |-> withCsv, item |-> NULL, minted |-> 1]
          [] out = "publish_raise" ->
               [items |-> withCsv, item |-> NULL, minted |-> 1]
          [] out = "rename_raise" ->
               [items |-> published, item |-> NULL, minted |-> 2]
          [] OTHER ->
               [items |-> titled, item |-> id + 1, minted |-> 2]

\* Step 4: new_item = create_new_table(...)
Create ==
    /\ pc = "creating"
    /\ ~escaped
    /\ touched' = TRUE
    /\ \E out \in PossibleOutcomes(nextId) :
          LET r == CreateNewTable(items, nextId, table_name, dataframe, out) IN
          /\ escaped' = Escapes(RaisingCall(out))
          /\ temp_csv_left' = LeavesTempFile(out)
          /\ items' = r.items
          /\ nextId' = nextId + r.minted
          /\ new_item' = r.item
          /\ IF r.item # NULL
             THEN /\ pc' = "sharing"
                  /\ Running
             ELSE Return(NULL, "create_failed")
    /\ UNCHANGED <<table_name, dataframe, existing_item, csv_item,
                   update_result, append_result, user_input, batch_i,
                   total_added, preItems>>

\* new_item.sharing.sharing_level = 'org', else new_item.share(org=True),
\* else a warning; then return new_item
Share ==
    /\ pc = "sharing"
    /\ ~escaped
    /\ touched' = TRUE
    /\ temp_csv_left' = FALSE
    /\ \E out \in {"primary", "legacy", "both_raise"} :
          /\ items' = IF out = "both_raise" THEN items
                      ELSE [items EXCEPT ![new_item].access = "org"]
          /\ escaped' = \/ (out # "primary" /\ ~Caught("sharing_level"))
                        \/ (out = "both_raise" /\ ~Caught("share"))
    /\ Return(new_item, IF existing_item # NULL THEN "recreated" ELSE "created")
    /\ UNCHANGED <<nextId, table_name, dataframe, existing_item, csv_item,
                   new_item, update_result, append_result, user_input,
                   batch_i, total_added, preItems>>

----------------------------------------------------------------------------

Next ==
    \/ \E name \in TableNames, v \in 1..Min(calls + 1, MaxVersion), n \in {0, MaxRows} :
          calls < MaxCalls /\ PublishOrUpdateTable(name, v, n)
    \/ Locate
    \/ UpdateDeleteFeatures
    \/ UpdateStaging
    \/ UpdateAppend
    \/ BatchStart
    \/ BatchStep
    \/ OperatorInput
    \/ Create
    \/ Share

Spec == Init /\ [][Next]_vars

----------------------------------------------------------------------------
(* CELL 9: one run of the notebook over the three tables *)

\* the next publish_or_update_table call of CELL 9
RunCall ==
    \E n \in {0, MaxRows} :
        /\ calls < Len(TableOrder)
        /\ PublishOrUpdateTable(TableOrder[calls + 1], 1, n)

RunNext ==
    \/ RunCall
    \/ Locate
    \/ UpdateDeleteFeatures
    \/ UpdateStaging
    \/ UpdateAppend
    \/ BatchStart
    \/ BatchStep
    \/ OperatorInput
    \/ Create
    \/ Share

RunSpec == Init /\ [][RunNext]_vars

\* The notebook runs on one thread: a step that can be taken is taken, and
\* every call of the sink returns or raises.  Nothing makes input() return,
\* so the operator's answers are under no fairness condition.
EngineFairness ==
    /\ WF_vars(Locate)
    /\ WF_vars(UpdateDeleteFeatures)
    /\ WF_vars(UpdateStaging)
    /\ WF_vars(UpdateAppend)
    /\ WF_vars(BatchStart)
    /\ WF_vars(BatchStep)
    /\ WF_vars(Create)
    /\ WF_vars(Share)

FairRunSpec == RunSpec /\ EngineFairness

----------------------------------------------------------------------------
(* The string handling on its own: every input of truncate_string, and
   every cell on every write path *)

engineVars ==
    <<items, nextId, pc, table_name, dataframe, existing_item, csv_item,
      new_item, update_result, append_result, user_input, batch_i,
      total_added, ret, path, touched, preItems, calls, onlyUpdates,
      firstRet, sameData, tried, escaped, temp_csv_left>>

FieldInit ==
    /\ items = InitItems(TRUE, TRUE)
    /\ EngineIdle
    /\ value \in Strings \cup {NoValue}
    /\ max_length \in 0..MaxLen
    /\ add_ellipsis \in BOOLEAN
    /\ column \in Columns
    /\ write_path = "none"
    /\ stored = <<>>
    /\ FeatureIdle
    /\ MemberIdle

\* a call truncate_string(value, max_length, add_ellipsis)
TruncateString ==
    /\ write_path = "none"
    /\ stored' = truncate_string(value, max_length, add_ellipsis)
    /\ write_path' = "truncated"
    /\ UNCHANGED <<value, max_length, add_ellipsis, column>>
    /\ UNCHANGED <<engineVars, featureVars, memberVars>>

\* the cell of raw value `value` in column `column` is written to a field
\* of length max_length through one of the write paths
WriteCell ==
    /\ write_path = "none"
    /\ value # NoValue
    /\ \E p \in WritePaths :
          /\ stored' = Written(column, value, p, max_length)
          /\ write_path' = p
    /\ UNCHANGED <<value, max_length, add_ellipsis, column>>
    /\ UNCHANGED <<engineVars, featureVars, memberVars>>

FieldNext == TruncateString \/ WriteCell

FieldSpec == FieldInit /\ [][FieldNext]_vars

----------------------------------------------------------------------------
(* The building of the attribute maps on its own: every schema of the
   table against every set of columns of the dataset *)

FeatureInit ==
    /\ items = InitItems(TRUE, TRUE)
    /\ EngineIdle
    /\ FieldIdle
    /\ MemberIdle
    /\ layer_fields \in SUBSET FieldNames
    /\ df_columns \in SUBSET ColumnNames
    /\ attributes = {}
    /\ features_result = "none"

\* add_features_in_batches up to its loop: layer_field_info, the
\* attributes of the rows, and the return False when all_features is empty
BuildFeatures ==
    /\ features_result = "none"
    /\ attributes' = Attributes(layer_fields, df_columns)
    /\ features_result' = IF attributes' = {} THEN "nomatch" ELSE "ok"
    /\ UNCHANGED <<layer_fields, df_columns>>
    /\ UNCHANGED <<engineVars, fieldVars, memberVars>>

FeatureNext == BuildFeatures

FeatureSpec == FeatureInit /\ [][FeatureNext]_vars

----------------------------------------------------------------------------
(* CELL 6 and CELL 8 for one group: every list of members *)

MemberInit ==
    /\ items = InitItems(TRUE, TRUE)
    /\ EngineIdle
    /\ FieldIdle
    /\ FeatureIdle
    /\ members \in MemberLists
    /\ org_id \in OrgIds
    /\ snapshot_record = NoRecord
    /\ group_members_data = <<>>
    /\ cell = 5

\* CELL 6: members = group.get_members(), all_member_usernames = [] when
\* it raises; the count over the usernames; the record
BuildSnapshot ==
    /\ cell = 5
    /\ \E got \in BOOLEAN :
          LET all_member_usernames == IF got THEN members ELSE <<>>
              external_member_count ==
                  Cardinality({k \in 1..Len(all_member_usernames) :
                      ExternalInSnapshot(all_member_usernames[k], org_id)})
          IN  snapshot_record' =
                  [external_member_count |-> external_member_count,
                   has_external_members |-> external_member_count > 0]
    /\ cell' = 6
    /\ UNCHANGED <<members, org_id, group_members_data>>
    /\ UNCHANGED <<engineVars, fieldVars, featureVars>>

\* CELL 8: members = group.get_members(), all_member_usernames = [] when
\* it raises; one record for each username
BuildMembers ==
    /\ cell = 6
    /\ \E got \in BOOLEAN :
          LET all_member_usernames == IF got THEN members ELSE <<>> IN
          group_members_data' =
              [k \in 1..Len(all_member_usernames) |->
                  MembershipType(all_member_usernames[k], org_id)]
    /\ cell' = 8
    /\ UNCHANGED <<members, org_id, snapshot_record>>
    /\ UNCHANGED <<engineVars, fieldVars, featureVars>>

MemberNext == BuildSnapshot \/ BuildMembers

MemberSpec == MemberInit /\ [][MemberNext]_vars

----------------------------------------------------------------------------
(* Properties *)

\* the last call of publish_or_update_table has returned
Returned == pc = "idle" /\ calls > 0

\* the operator answered yes
Confirmed == user_input \in {"yes", "y"}

IsPublishedTable(its, i, name) ==
    /\ i \in Ids(its)
    /\ its[i].title = name
    /\ its[i].owner = current_user
    /\ its[i].type = FeatureService

\* the tables that carried the requested name when the call started
PreMatching == {i \in Ids(preItems) : IsPublishedTable(preItems, i, table_name)}

TablesOf(its) == IdsOfType(its, FeatureService)

\* the string ends with "..."
EndsWithMarker(s) ==
    Len(s) >= 3 /\ SubSeq(s, Len(s) - 2, Len(s)) = Ellipsis

\* C1: as long as every call of the sequence took the update path and the
\* update succeeded (so the operator never approved a recreate), each call
\* returns the identity the first call returned, and that item is still the
\* published table of that name.
IdentityInvariant ==
    (Returned /\ onlyUpdates) =>
        /\ ret = firstRet
        /\ ret = existing_item
        /\ IsPublishedTable(items, ret, table_name)
        /\ IsPublishedTable(preItems, ret, table_name)

IdentityWitness == Returned /\ onlyUpdates /\ calls >= 2

\* C2: when a table of the requested name owned by the current user exists
\* at the call, the call returns another identity only if the update failed
\* and the operator answered yes.
NewIdentityOnlyOnConfirm ==
    (Returned /\ PreMatching # {} /\ ret # NULL /\ ret \notin PreMatching) =>
        (update_result = "failed" /\ Confirmed)

\* C3: a table that existed when the call started is gone only if it is the
\* one that was located, the update of it failed and the operator answered
\* yes; and while an update has failed without that answer, no table has
\* been deleted or created.
DeleteOnlyOnConfirm ==
    /\ \A i \in TablesOf(preItems) :
          i \notin Ids(items) =>
             (i = existing_item /\ update_result = "failed" /\ Confirmed)
    /\ (update_result = "failed" /\ ~Confirmed) =>
          TablesOf(items) = TablesOf(preItems)

DeleteWitness ==
    /\ existing_item # NULL
    /\ existing_item \in Ids(preItems)
    /\ existing_item \notin Ids(items)

\* C4: a call with an empty dataset returns null, invokes no primitive of
\* the sink and leaves the sink as it was.
EmptyDatasetRule ==
    (Returned /\ Len(dataframe) = 0) =>
        (ret = NULL /\ ~touched /\ items = preItems)

EmptyDatasetWitness ==
    Returned /\ Len(dataframe) = 0 /\ PreMatching # {}

\* C5: when the table was found and the bulk append succeeded, the call
\* returns the identity found and the table's rows are exactly the dataset.
ScenarioA ==
    (Returned /\ path = "updated" /\ append_result = "ok") =>
        /\ ret = existing_item
        /\ ret \in Ids(preItems)
        /\ items[ret].rows = dataframe

ScenarioAWitness ==
    /\ Returned /\ path = "updated" /\ append_result = "ok"
    /\ preItems[ret].rows # <<>>
    /\ preItems[ret].rows # dataframe

\* C6: the update is reported successful only if the bulk append succeeded
\* or the batch insert ran and reported success; after an append that
\* raised, reported failure or returned null the batch insert was attempted.
FallbackRule ==
    (Returned /\ update_result = "ok") =>
        \/ append_result = "ok"
        \/ /\ append_result \in {"raise", "false", "none"}
           /\ batch_i > 0
           /\ total_added > 0

\* C7: when the bulk append raised and the batch insert stored all N rows,
\* the update succeeds with the identity found and the table holds exactly
\* the N rows of the dataset.
ScenarioB ==
    (Returned /\ path = "updated" /\ append_result = "raise"
       /\ total_added = Len(dataframe)) =>
        /\ ret = existing_item
        /\ ret \in Ids(preItems)
        /\ update_result = "ok"
        /\ items[ret].rows = dataframe

ScenarioBWitness ==
    /\ Returned /\ path = "updated" /\ append_result = "raise"
    /\ total_added = Len(dataframe)
    /\ Len(dataframe) > BatchSize
    /\ preItems[ret].rows # <<>>

\* C8: after a failed update answered with no or skip, the call returns the
\* table found and that table is as it was before the call.
ScenarioD ==
    (Returned /\ path \in {"aborted", "skipped"}) =>
        /\ ret = existing_item
        /\ ret \in Ids(items)
        /\ items[ret] = preItems[ret]

RecreateRequested ==
    Returned /\ existing_item # NULL /\ update_result = "failed" /\ Confirmed

Recreated ==
    /\ existing_item \notin Ids(items)
    /\ ret \notin Ids(preItems)
    /\ IsPublishedTable(items, ret, table_name)
    /\ items[ret].rows = dataframe

ScenarioC ==
    (Returned /\ PreMatching = {} /\ path = "created") =>
        /\ IsPublishedTable(items, ret, table_name)
        /\ \E c \in IdsOfType(items, CSV) : items[c].title = CsvTitle(table_name)
        /\ items[ret].access = "org"

\* C11: when the batch insert loop ends having stored k of the N rows, the
\* update succeeds if k = N, succeeds if 0 < k < N, and fails if k = 0.
BatchResultRule ==
    [][(pc = "batch" /\ pc' # "batch") =>
          LET k == total_added + Len(items'[existing_item].rows)
                      - Len(items[existing_item].rows)
              N == Len(dataframe)
          IN  /\ (k = N => update_result' = "ok")
              /\ (0 < k /\ k < N => update_result' = "ok")
              /\ (k = 0 => update_result' = "failed")]_vars

BatchPartialWitness ==
    /\ Returned /\ path = "updated" /\ append_result \in {"raise", "none"}
    /\ 0 < total_added /\ total_added < Len(dataframe)

\* the current / last update stored the whole dataset
FullyStored == append_result = "ok" \/ total_added = Len(dataframe)

\* what C12 concludes: the table returned is the one the first call
\* returned and its rows are what they were after the previous run
SameAsSingleRun ==
    /\ ret = firstRet
    /\ ret = existing_item
    /\ ret \in Ids(preItems)
    /\ items[ret].rows = preItems[ret].rows

CreatedEarlier ==
    {i \in PreMatching :
        i \notin Ids(InitItems(TRUE, TRUE)) /\ preItems[i].access = "org"}

\* C13: once a call has created the table of a name, a later call with a
\* non-empty dataset locates a table of that name and takes the update path.
RefreshesInPlace ==
    (Returned /\ Len(dataframe) > 0 /\ CreatedEarlier # {}) =>
        existing_item \in PreMatching

\* the bulk append or the batch insert has been reached in this call
PastStaging ==
    pc \in {"appending", "batch_start", "batch"} \/ append_result # "unset"

\* C14: the bulk append and the batch insert are reached only after the
\* row delete emptied the table and the staging item of the name holds the
\* dataset; a failure of either step returns failure before them.
StepFailureAborts ==
    /\ PastStaging =>
          /\ csv_item \in IdsOfType(items, CSV)
          /\ items[csv_item].title = CsvTitle(table_name)
          /\ items[csv_item].rows = dataframe
    /\ pc = "appending" => items[existing_item].rows = <<>>
    /\ (pc = "awaiting" /\ user_input = NoInput) =>
          (update_result = "failed" /\ ~PastStaging)

StepFailureWitness ==
    /\ pc = "awaiting" /\ user_input = NoInput /\ update_result = "failed"
    /\ items = preItems
    /\ preItems[existing_item].rows # <<>>

\* C15: the operator is prompted only after update_existing_table returned
\* failure; an update that succeeded, through the batch insert as well,
\* returns the table found without a prompt.
PromptOnlyOnFailure ==
    /\ (pc = "awaiting" \/ user_input # NoInput) =>
          (update_result = "failed" /\ existing_item # NULL)
    /\ (Returned /\ update_result = "ok") =>
          (user_input = NoInput /\ ret = existing_item)

PromptWitness ==
    /\ Returned /\ update_result = "ok" /\ user_input = NoInput
    /\ append_result \in {"raise", "none"}
    /\ total_added > 0

SixAnswers == {"yes", "y", "no", "n", "skip", "s"}

\* C16: a step taken while awaiting the operator leaves the awaiting state
\* if the trimmed, lower-cased input is one of the six answers, and
\* otherwise stays there without an operation on the sink.
PromptLoop ==
    [][pc = "awaiting" =>
          IF user_input' \in SixAnswers
          THEN pc' # "awaiting"
          ELSE pc' = "awaiting" /\ items' = items /\ nextId' = nextId
                 /\ touched' = touched]_vars

PromptLoopWitness ==
    pc = "awaiting" /\ user_input \notin SixAnswers /\ user_input # NoInput

\* the next call of CELL 9
NextCall ==
    \E name \in TableNames, v \in 1..MaxVersion, n \in {0, MaxRows} :
        PublishOrUpdateTable(name, v, n)

\* C17: after yes and a failed delete the call returns null, no table was
\* created, the table found is still there under its identity, and the
\* next call of the run can be made.
DeleteFailureRule ==
    (Returned /\ path = "delete_failed") =>
        /\ ret = NULL
        /\ new_item = NULL
        /\ IsPublishedTable(items, existing_item, table_name)
        /\ TablesOf(items) = TablesOf(preItems)
        /\ calls < MaxCalls => ENABLED NextCall

DeleteFailureWitness ==
    Returned /\ path = "delete_failed" /\ Confirmed /\ calls < MaxCalls

\* C18: the caller can tell abort from skip: after abort the run does not
\* go on to the next table, or the call did not return what skip returns.
AbortEndsRun ==
    (Returned /\ path = "aborted" /\ calls < MaxCalls) =>
        (ret # existing_item \/ ~ENABLED NextCall)

\* C19: the item find_existing_table returned carries exactly the requested
\* title and is owned by exactly the current user, whichever method found it.
FoundIsExactMatch ==
    existing_item # NULL =>
        /\ existing_item \in Ids(preItems)
        /\ preItems[existing_item].title = table_name
        /\ preItems[existing_item].owner = current_user

FoundByListingWitness == tried = 3 /\ existing_item # NULL

\* C20: find_existing_table reports no table only after it has used all
\* three methods.
AbsentOnlyAfterThreeMethods ==
    (tried # 0 /\ existing_item = NULL) => tried = 3

\* C21: an error raised by a search or by the listing in find_existing_table
\* is turned into the result None: it does not leave the function, and
\* publish_or_update_table goes on to create_new_table.
SearchErrorIsAbsent ==
    (tried \in {1, 2} /\ existing_item = NULL) =>
        /\ ~escaped
        /\ pc = "creating"
        /\ path = "running"
        /\ ENABLED Create

SearchErrorWitness ==
    /\ tried = 1
    /\ existing_item = NULL
    /\ pc = "creating"
    /\ PreMatching # {}

\* C22: a staging CSV item that existed when a call started is still in the
\* sink, as a CSV item of the same title, at every point of the call and
\* after it, the delete-and-recreate of the table included.
StagingNeverDeleted ==
    \A i \in IdsOfType(preItems, CSV) :
        /\ i \in IdsOfType(items, CSV)
        /\ items[i].title = preItems[i].title
        /\ items[i].owner = preItems[i].owner

StagingKeptWitness ==
    /\ Returned
    /\ path = "recreated"
    /\ \E i \in IdsOfType(preItems, CSV) :
          preItems[i].title = CsvTitle(table_name)

\* C23: when the append is invoked the staging item it is pointed at is a
\* CSV item titled "{table_name}_source" that holds the new dataset; it is
\* either an item that carried that title when the call started, refreshed
\* under its own id, or the one item this call added; an append that
\* succeeds loads the rows of that item.
StagingBeforeAppend ==
    (pc = "appending" \/ append_result # "unset") =>
        /\ csv_item \in IdsOfType(items, CSV)
        /\ items[csv_item].title = CsvTitle(table_name)
        /\ items[csv_item].rows = dataframe
        /\ IF csv_item \in Ids(preItems)
           THEN /\ preItems[csv_item].type = CSV
                /\ preItems[csv_item].title = CsvTitle(table_name)
                /\ Ids(items) = Ids(preItems)
           ELSE Ids(items) = Ids(preItems) \cup {csv_item}
        /\ append_result = "ok" =>
              items[existing_item].rows = items[csv_item].rows

StagingRefreshedWitness ==
    /\ pc = "appending"
    /\ csv_item \in Ids(preItems)
    /\ preItems[csv_item].rows # dataframe
    /\ items[csv_item].rows = dataframe

\* C24: the temporary CSV file written by update_source_csv_item,
\* create_source_csv_item or create_new_table is gone when the function
\* has returned.
TempFileRemoved == ~temp_csv_left

\* C25: a string value written to the sink, through any write path and in
\* any string column, is at most FieldLength characters long.
WrittenWithinFieldLength ==
    write_path \in WritePaths => Len(stored) <= FieldLength

\* C26: a dataset value longer than the length max_length of the target
\* field, written by the batch insert, is stored with at most max_length
\* characters and ends with "...".
BatchTruncatesWithMarker ==
    (write_path = "batch" /\ max_length > 3
        /\ Len(SourceCell(column, value)) > max_length) =>
        /\ Len(stored) <= max_length
        /\ EndsWithMarker(stored)

\* C27: truncate_string returns "" for None, the string itself when it is
\* at most max_length long, else its first max_length - 3 characters and
\* "..." when add_ellipsis is set and max_length > 3, else its first
\* max_length characters; the result is never longer than max_length.
TruncateReference ==
    write_path = "truncated" =>
        /\ value = NoValue => stored = <<>>
        /\ (value # NoValue /\ Len(value) <= max_length) => stored = value
        /\ (value # NoValue /\ Len(value) > max_length) =>
              IF add_ellipsis /\ max_length > 3
              THEN /\ Len(stored) = max_length
                   /\ \A k \in 1..(max_length - 3) : stored[k] = value[k]
                   /\ \A k \in (max_length - 2)..max_length : stored[k] = "."
              ELSE /\ Len(stored) = max_length
                   /\ \A k \in 1..max_length : stored[k] = value[k]
        /\ Len(stored) <= max_length

TruncateWitness ==
    /\ write_path = "truncated"
    /\ value # NoValue
    /\ Len(value) > max_length
    /\ max_length > 3
    /\ add_ellipsis
    /\ stored # Slice(value, max_length)

\* C28, as stated: for max_length > 3 the result of truncate_string(s,
\* max_length) ends with "..." if and only if s is longer than max_length.
MarkerIffLonger ==
    (write_path = "truncated" /\ add_ellipsis /\ max_length > 3
        /\ value # NoValue) =>
        (EndsWithMarker(stored) <=> Len(value) > max_length)

\* C28, amended: for max_length > 3 the result ends with "..." if and only
\* if s is longer than max_length or s itself ends with "...".
MarkerIffLongerOrMarked ==
    (write_path = "truncated" /\ add_ellipsis /\ max_length > 3
        /\ value # NoValue) =>
        (EndsWithMarker(stored) <=>
            (Len(value) > max_length \/ EndsWithMarker(value)))

MarkerWitness ==
    /\ write_path = "truncated"
    /\ add_ellipsis
    /\ max_length > 3
    /\ value # NoValue
    /\ Len(value) > max_length
    /\ ~EndsWithMarker(value)
    /\ EndsWithMarker(stored)

\* the titles of the items a call for table name may add or change
TitlesOf(name) == {name, CsvTitle(name)}

\* C29: the calls of a run are made for Snapshot, Content, Members in that
\* order; while a call runs, and after it, the only items of the sink that
\* differ from what they were when it started carry the name of its table;
\* whatever a call returned, None included, the call for the next table
\* can be made.
SequentialInOrder ==
    /\ pc # "idle" => (calls < Len(TableOrder) /\ table_name = TableOrder[calls + 1])
    /\ Returned => table_name = TableOrder[calls]
    /\ \A i \in Ids(preItems) :
          preItems[i].title \notin TitlesOf(table_name) =>
              (i \in Ids(items) /\ items[i] = preItems[i])
    /\ \A i \in Ids(items) \ Ids(preItems) :
          items[i].title \in TitlesOf(table_name)
    /\ (Returned /\ calls < Len(TableOrder)) => ENABLED RunCall

SequentialWitness ==
    /\ Returned
    /\ calls = Len(TableOrder)
    /\ ret # NULL
    /\ \A i \in Ids(items) : items[i].title # GROUP_CONTENT_TABLE

EveryCallReturns ==
    /\ [](pc = "awaiting" => (existing_item # NULL /\ update_result = "failed"))
    /\ ((pc = "awaiting") ~> (pc # "awaiting")) => ((pc # "idle") ~> (pc = "idle"))
    /\ (pc # "idle") ~> (pc \in {"idle", "awaiting"})

ReturnedAfterPromptWitness ==
    /\ Returned
    /\ path = "skipped"
    /\ update_result = "failed"
    /\ IsSkip(user_input)

\* the rows of a table, as a set
RowSet(rows) == {rows[k] : k \in 1..Len(rows)}

\* no row occurs twice
NoRepeat(rows) ==
    \A j, k \in 1..Len(rows) : rows[j] = rows[k] => j = k

\* the batch of the pass the loop is at
CurrentBatch == Batch(dataframe, batch_i, BatchSize)

BatchStarts(n) == {i \in 0..(n - 1) : i % BatchSize = 0}

\* C33: the passes of the loop start at 0, batch_size, 2 * batch_size, ...;
\* the batch of a pass is the rows from its start on, batch_size of them or,
\* for the last pass, the rows that are left, at least one; so every row is
\* in exactly one batch, in its order, and there are ceil(N / batch_size)
\* passes.
BatchesPartitionRows ==
    pc = "batch" =>
        LET N == Len(dataframe)
            starts == BatchStarts(N)
        IN  /\ batch_i \in starts
            /\ \A i \in starts :
                  LET b == Batch(dataframe, i, BatchSize) IN
                  /\ Len(b) >= 1
                  /\ Len(b) = IF i + BatchSize <= N THEN BatchSize ELSE N - i
                  /\ \A k \in 1..Len(b) : b[k] = dataframe[i + k]
            /\ \A j \in 1..N :
                  Cardinality({i \in starts :
                      j \in (i + 1)..(i + Len(Batch(dataframe, i, BatchSize)))}) = 1
            /\ Cardinality(starts) = (N + BatchSize - 1) \div BatchSize

ShortLastBatchWitness ==
    /\ pc = "batch"
    /\ batch_i > 0
    /\ Len(CurrentBatch) < BatchSize
    /\ batch_i + Len(CurrentBatch) = Len(dataframe)

\* C35: nothing of the sink is changed before the row delete; the table is
\* empty when the staging item is refreshed, when the append is invoked and
\* when the batch insert starts; the table an update that succeeded
\* returns holds rows of the new dataset only, none of them twice.
DeleteBeforeWrites ==
    /\ pc = "updating" => items = preItems
    /\ pc = "staging" =>
          \A i \in Ids(items) : i # existing_item => items[i] = preItems[i]
    /\ pc \in {"staging", "appending", "batch_start"} =>
          items[existing_item].rows = <<>>
    /\ (Returned /\ path = "updated") =>
          /\ RowSet(items[ret].rows) \subseteq RowSet(dataframe)
          /\ NoRepeat(items[ret].rows)

PreviousRowsGoneWitness ==
    /\ Returned /\ path = "updated"
    /\ preItems[ret].rows # <<>>
    /\ RowSet(preItems[ret].rows) \cap RowSet(dataframe) = {}
    /\ items[ret].rows # <<>>

\* C36: after a call has returned the sink holds at most one published
\* table of the name owned by the current user.
OneTablePerName ==
    Returned =>
        Cardinality({i \in Ids(items) :
                        IsPublishedTable(items, i, table_name)}) <= 1

\* the staging items of a table name
StagingOf(its, name) ==
    {i \in IdsOfType(its, CSV) :
        its[i].title = CsvTitle(name) /\ its[i].owner = current_user}

\* C37: after a call has returned the sink holds at most one staging item
\* titled "{table_name}_source".
OneStagingPerName ==
    Returned => Cardinality(StagingOf(items, table_name)) <= 1

\* add_features_in_batches has made at least one pass of its loop and has
\* not returned False
BatchRan ==
    \/ pc = "batch"
    \/ Returned /\ path = "updated" /\ append_result \in {"raise", "none"}

\* C38: the rows add_features_in_batches has stored are rows of the batches
\* it has been through, none of them twice, and total_added is their
\* number, never more than the rows submitted.
NoRowStoredTwice ==
    BatchRan =>
        /\ total_added <= Len(dataframe)
        /\ total_added = Len(items[existing_item].rows)
        /\ NoRepeat(items[existing_item].rows)
        /\ RowSet(items[existing_item].rows)
              \subseteq RowSet(SubSeq(dataframe, 1, Min(batch_i, Len(dataframe))))

StoredOnceWitness ==
    /\ Returned /\ path = "updated" /\ append_result = "raise"
    /\ batch_i > BatchSize
    /\ total_added = Len(dataframe) - 1
    /\ items[existing_item].rows[1] # dataframe[1]

\* C34: the keys of an attribute map are fields of the live table, none of
\* them objectid, fid or globalid; each takes its value from a column of
\* the dataset of the same name up to case; so a column with no field of
\* its name in the table gives no attribute.
AttributesMatchSchema ==
    features_result # "none" =>
        /\ \A a \in attributes :
              /\ a[1] \in layer_fields
              /\ Lower(a[1]) \notin {"objectid", "fid", "globalid"}
              /\ a[2] \in df_columns
              /\ Lower(a[1]) = Lower(a[2])
        /\ \A c \in df_columns :
              (\A f \in layer_fields : Lower(f) # Lower(c)) =>
                  (\A a \in attributes : a[2] # c)
        /\ features_result = "ok" <=> attributes # {}

AttributesWitness ==
    /\ features_result = "ok"
    /\ "OBJECTID" \in layer_fields
    /\ "objectid" \in df_columns
    /\ "item_count" \in df_columns
    /\ <<"Group_Title", "group_title">> \in attributes

\* C39: the external_member_count of the group's Snapshot record is the
\* number of the group's Members records whose user_membership_type is
\* 'External', and has_external_members tells whether there is one.
ExternalCountMatches ==
    cell = 8 =>
        LET external ==
                {k \in 1..Len(group_members_data) :
                    group_members_data[k] = "External"}
        IN  /\ snapshot_record.external_member_count = Cardinality(external)
            /\ snapshot_record.has_external_members <=> external # {}

====
